---- MODULE Spec2Model ----
(***************************************************************************)
(* A model of the Dapis search server (dapis_server.py): the session       *)
(* registry, the get_targets display rule, the format dispatch of          *)
(* search_file, the process pool, the /search handler and the per-session  *)
(* SQLite result store.                                                    *)
(*                                                                         *)
(* Text is modelled as a tuple of one-character strings, so that           *)
(* str.lower, str.split, the `in` operator on strings and tuples, slicing  *)
(* and pathlib's joining are computed the way Python computes them.        *)
(***************************************************************************)
EXTENDS Integers, Sequences, FiniteSets, TLC

----------------------------------------------------------------------------
(* Bounds of the model *)

\* the display limit is drawn from 0..MaxLimit
MaxLimit == 1
\* number of submit_targets and /search requests served in one behaviour
MaxRequests == 3
\* longest path drawn for the classification of search_file
MaxPathLen == 3

----------------------------------------------------------------------------
(* Text helpers *)

UpperToLower ==
  [A |-> "a", C |-> "c", D |-> "d", F |-> "f", M |-> "m", O |-> "o",
   P |-> "p", S |-> "s", T |-> "t", X |-> "x", Y |-> "y"]

\* str.lower on one character
LowerChar(c) == IF c \in DOMAIN UpperToLower THEN UpperToLower[c] ELSE c

\* str.lower
lower(s) == [i \in 1..Len(s) |-> LowerChar(s[i])]

\* s.split(sep): the segments between the occurrences of the character sep
RECURSIVE split(_, _)
split(s, sep) ==
  LET hits == {i \in 1..Len(s) : s[i] = sep}
  IN  IF hits = {} THEN <<s>>
      ELSE LET k == CHOOSE i \in hits : \A h \in hits : i <= h
           IN  <<SubSeq(s, 1, k - 1)>> \o split(SubSeq(s, k + 1, Len(s)), sep)

\* python's `a in b` for two strings: a occurs in b as a contiguous substring
StrIn(a, b) ==
  \E k \in 0..(Len(b) - Len(a)) : SubSeq(b, k + 1, k + Len(a)) = a

\* python's paths[:n] for n >= 0
Slice(s, n) == SubSeq(s, 1, IF n < Len(s) THEN n ELSE Len(s))

DigitChars == <<"0", "1", "2", "3", "4", "5", "6", "7", "8", "9">>

\* str(n) for n >= 0
RECURSIVE str(_)
str(n) == IF n < 10 THEN <<DigitChars[n + 1]>>
          ELSE str(n \div 10) \o <<DigitChars[(n % 10) + 1]>>

RECURSIVE Concat(_)
Concat(ss) == IF ss = <<>> THEN <<>> ELSE Head(ss) \o Concat(Tail(ss))

None == <<"N", "o", "n", "e">>

----------------------------------------------------------------------------
(* The file system the handlers read: an input of the program.  A path    *)
(* that is not listed cannot be opened.  A word-processor file carries    *)
(* the pages its PDF rendering has.                                       *)

pTxt  == <<"a", ".", "t", "x", "t">>
pMd   == <<"b", ".", "M", "D">>
pDocx == <<"c", ".", "d", "o", "c", "x">>
pGone == <<"d", ".", "t", "x", "t">>
pXlsx == <<"e", ".", "x", "l", "s", "x">>
pPdf  == <<"f", ".", "p", "d", "f">>

NoContent == [lines |-> <<>>, sheets |-> <<>>, pages |-> <<>>]

Cell(t) == [null |-> FALSE, text |-> t]
NullCell == [null |-> TRUE, text |-> <<>>]
Word(n, t) == [line_no |-> n, word |-> t]

Files ==
  (pTxt :> [NoContent EXCEPT !.lines = << <<"x">>, <<"X", "y">> >>]) @@
  (pMd :> [NoContent EXCEPT !.lines = << <<"y">>, <<"x">> >>]) @@
  (pDocx :> [NoContent EXCEPT !.pages =
     << <<Word(0, <<"x">>)>>, <<Word(0, <<"y">>), Word(1, <<"X">>)>> >>]) @@
  (pXlsx :> [NoContent EXCEPT !.sheets =
     << [name |-> <<"S", "1">>,
         rows |-> << <<NullCell, Cell(<<"x">>)>>, <<Cell(<<"X">>)>> >>] >>]) @@
  (pPdf :> [NoContent EXCEPT !.pages =
     << <<Word(0, <<"y">>)>>, <<Word(0, <<"x">>), Word(1, <<"x", "y">>)>> >>])

Readable(fp) == fp \in DOMAIN Files

----------------------------------------------------------------------------
(* Regular expressions.  A pattern is literal text; a pattern holding an   *)
(* unbalanced "(" does not compile.  flags is TRUE for re.IGNORECASE.      *)

Compiles(pattern) == \A i \in 1..Len(pattern) : pattern[i] # "("

\* rx.search(text) for rx = re.compile(pattern, flags)
rx_search(pattern, flags, text) ==
  IF flags THEN StrIn(lower(pattern), lower(text)) ELSE StrIn(pattern, text)

----------------------------------------------------------------------------
(* Extraction handlers.  A handler returns [exc, out]: exc is TRUE when    *)
(* the call raises, out is the list of matches it returns otherwise.       *)
(* The PDF handler's "x%" and "y%" keys are not modelled: they are never   *)
(* written to the result store.                                            *)

Raise == [exc |-> TRUE, out |-> <<>>]
Return(out) == [exc |-> FALSE, out |-> out]

Match(path, sheet, line, column, page, value) ==
  [path |-> path, sheet |-> sheet, line |-> line, column |-> column,
   page |-> page, value |-> value]

Matching(pattern, flags, candidates) ==
  LET Hit(m) == rx_search(pattern, flags, m.value)
  IN  SelectSeq(candidates, Hit)

search_text_file(fp, pattern, flags) ==
  IF ~Compiles(pattern) THEN Raise
  ELSE IF ~Readable(fp) THEN Return(<<>>)
  ELSE LET lines == Files[fp].lines
       IN  Return(Matching(pattern, flags,
             [i \in 1..Len(lines) |->
                Match(fp, None, str(i), None, None, lines[i])]))

search_excel_file(fp, pattern, flags) ==
  IF ~Compiles(pattern) THEN Raise
  ELSE IF ~Readable(fp) THEN Return(<<>>)
  ELSE LET sheets == Files[fp].sheets
           val(cell) == IF cell.null THEN <<>> ELSE cell.text
           OfRow(sheet, i, row) ==
             [j \in 1..Len(row) |->
                Match(fp, sheet, str(i), str(j), None, val(row[j]))]
           OfSheet(ws) ==
             Concat([i \in 1..Len(ws.rows) |-> OfRow(ws.name, i, ws.rows[i])])
       IN  Return(Matching(pattern, flags,
             Concat([s \in 1..Len(sheets) |-> OfSheet(sheets[s])])))

search_pdf_file(fp, pattern, flags, fp_alias) ==
  IF ~Compiles(pattern) THEN Raise
  ELSE IF ~Readable(fp) THEN Return(<<>>)
  ELSE LET pages == Files[fp].pages
           OfPage(n) ==
             [w \in 1..Len(pages[n]) |->
                Match(fp_alias, None, str(pages[n][w].line_no), None, str(n),
                      pages[n][w].word)]
       IN  Return(Matching(pattern, flags,
             Concat([n \in 1..Len(pages) |-> OfPage(n)])))

\* convert_word_to_pdf and convert_ppt_to_pdf: the external converter either
\* writes the PDF rendering (converted = TRUE) or the call raises.  The
\* rendering of fp is read back through fp's own entry of Files.
convert_to_pdf(fp, converted) == [exc |-> ~converted, pdf_fp |-> fp]

----------------------------------------------------------------------------
(* search_file: the dispatch on the extension *)

Ext(fp) == LET parts == split(lower(fp), ".") IN parts[Len(parts)]

ExcelExts ==
  { <<"x", "l", "s", "x">>, <<"x", "l", "s", "m">>, <<"x", "l", "s">> }
TextExts ==
  { <<"t", "x", "t">>, <<"p", "y">>, <<"m", "d">>, <<"c", "s", "v">> }
DocxExt   == <<"d", "o", "c", "x">>
PptxExt   == <<"p", "p", "t", "x">>
PdfExt    == <<"p", "d", "f">>

\* `ext in ("docx")` is python's substring test: ("docx") is a string
InDocx(ext) == StrIn(ext, DocxExt)
InPptx(ext) == StrIn(ext, PptxExt)

\* the branch search_file takes
Dispatch(fp) ==
  LET ext == Ext(fp)
  IN  IF ext \in ExcelExts THEN "excel"
      ELSE IF InDocx(ext) THEN "word"
      ELSE IF InPptx(ext) THEN "ppt"
      ELSE IF ext = PdfExt THEN "pdf"
      ELSE IF ext \in TextExts THEN "text"
      ELSE "none"

\* search_file(fp, pattern, flags); converted is the converter's outcome,
\* read only by the two branches that call it
search_file(fp, pattern, flags, converted) ==
  LET branch == Dispatch(fp)
  IN  CASE branch = "excel" -> search_excel_file(fp, pattern, flags)
        [] branch \in {"word", "ppt"} ->
             LET c == convert_to_pdf(fp, converted)
             IN  IF c.exc THEN Raise
                 ELSE search_pdf_file(c.pdf_fp, pattern, flags, fp)
        [] branch = "pdf" -> search_pdf_file(fp, pattern, flags, fp)
        [] branch = "text" -> search_text_file(fp, pattern, flags)
        [] OTHER -> Return(<<>>)


----------------------------------------------------------------------------
(* Inputs of the requests *)

sidA    == <<"a">>
sidDotA == <<".", "/", "a">>
sidB    == <<"b">>
SessionIds == {sidA, sidDotA, sidB}

TargetLists == { <<pGone>>, <<pTxt, pMd>>, <<pDocx, pTxt>> }

\* the (pattern, ignore_case) pairs of the /search requests
SearchInputs ==
  { [pattern |-> <<"x">>, ignore_case |-> TRUE],
    [pattern |-> <<"(">>, ignore_case |-> FALSE] }

\* the /search requests that can be open at once; a request takes the first
\* free slot
Slots == {1, 2}

\* the characters the classified paths are drawn from
PathChars == {".", "c", "d", "o", "p", "t", "x", "D"}

RECURSIVE PathsUpTo(_)
PathsUpTo(n) ==
  IF n = 0 THEN {<<>>}
  ELSE LET shorter == PathsUpTo(n - 1)
       IN  shorter \cup {Append(q, c) : q \in shorter, c \in PathChars}

----------------------------------------------------------------------------
(* State *)

VARIABLES
  TARGETS_COUNT_DEFAULT,  \* cfg.get("targets_count_default"), read at import
  SESSIONS,               \* the dict session_id -> paths
  stores,                 \* db path -> the rows of its results table, by id
  reqs,                   \* per slot: where its /search handler stands
  queries,                \* the /search requests that reached the registry
                          \* lookup: their pool tasks, and the answer given
  nsub,                   \* submit_targets requests served
  resp,                   \* the answer get_targets has just given
  submitted,              \* history: session_id -> the paths last submitted
  fp,                     \* the path given to search_file on its own
  cls                     \* what search_file did with fp

vars == <<TARGETS_COUNT_DEFAULT, SESSIONS, stores, reqs, queries, nsub, resp,
          submitted, fp, cls>>

max_workers == 2

RESULTS_DIR == <<"r", "e", "s", "u", "l", "t", "s">>
SqliteSuffix == <<".", "s", "q", "l", "i", "t", "e">>

\* Path(RESULTS_DIR) / f"{session_id}.sqlite", as its tuple of components:
\* pathlib drops empty and "." components, and an absolute right operand
\* replaces the left one
db_path(session_id) ==
  LET name == session_id \o SqliteSuffix
      Kept(c) == c # <<>> /\ c # <<".">>
      parts == SelectSeq(split(name, "/"), Kept)
      root == IF /\ Len(name) >= 3
                 /\ name[1] = "/" /\ name[2] = "/" /\ name[3] # "/"
              THEN <<"/", "/">> ELSE <<"/">>
  IN  IF name[1] = "/" THEN <<root>> \o parts ELSE <<RESULTS_DIR>> \o parts

\* init_db: CREATE TABLE IF NOT EXISTS in the session's database file
init_db(session_id) ==
  LET d == db_path(session_id)
  IN  IF d \in DOMAIN stores THEN stores ELSE stores @@ (d :> <<>>)

\* the row save_result inserts for match m of query number q; q is history,
\* the id column is the row's position in the table
Row(q, query, m) ==
  [query |-> query, file_path |-> m.path, sheet |-> m.sheet, line |-> m.line,
   column |-> m.column, page |-> m.page, value |-> m.value, q |-> q]

\* a save_result that skips a match the table already holds
save_result_unique(table, row) ==
  IF \E n \in 1..Len(table) : [table[n] EXCEPT !.q = row.q] = row
  THEN table ELSE Append(table, row)

\* save_result: one INSERT, committed
save_result(table, row) == Append(table, row)

\* an extend that puts the later target's matches first
extend_front(results, out) == out \o results

\* results.extend(f.result())
extend(results, out) == results \o out

\* a handler that gives the loop back while it waits, as a plain `def`
\* handler run in the thread pool would
LoopShared(r) == TRUE

\* the event loop runs one handler at a time: /search is an `async def` that
\* never awaits after reading its body, and f.result() blocks the loop's
\* thread.  r is the slot asking, 0 for the two registry handlers.
LoopFree(r) == \A o \in Slots \ {r} : reqs[o].pc # "running"

Idle == [pc |-> "idle", q |-> 0, i |-> 0, results |-> <<>>, j |-> 0]

NoResp == [status |-> "none", session_id |-> <<>>, paths |-> <<>>, of |-> <<>>]
NoCls == [done |-> FALSE, branch |-> "none", exc |-> FALSE, out |-> <<>>]

Init ==
  /\ TARGETS_COUNT_DEFAULT \in 0..MaxLimit
  /\ SESSIONS = <<>>
  /\ stores = <<>>
  /\ reqs = [r \in Slots |-> Idle]
  /\ queries = <<>>
  /\ nsub = 0
  /\ resp = NoResp
  /\ submitted = <<>>
  /\ fp = <<>>
  /\ cls = NoCls

----------------------------------------------------------------------------
(* Session registry *)

\* SESSIONS[data.session_id] = data.paths
submit_targets(session_id, paths) ==
  [s \in DOMAIN SESSIONS \cup {session_id} |->
     IF s = session_id THEN paths ELSE SESSIONS[s]]

SubmitTargets(session_id, paths) ==
  /\ LoopFree(0)
  /\ nsub + Len(queries) < MaxRequests
  /\ nsub' = nsub + 1
  /\ SESSIONS' = submit_targets(session_id, paths)
  /\ submitted' = [s \in DOMAIN submitted \cup {session_id} |->
                     IF s = session_id THEN paths ELSE submitted[s]]
  /\ resp' = NoResp
  /\ UNCHANGED <<TARGETS_COUNT_DEFAULT, stores, reqs, queries, fp, cls>>

\* f"...and {n} more"
AndMore(n) ==
  <<".", ".", ".", "a", "n", "d", " ">> \o str(n) \o <<" ", "m", "o", "r", "e">>

\* a display rule that counts a full page as overflowing
displayed_inclusive(paths, max_count) ==
  IF Len(paths) >= max_count
  THEN Append(Slice(paths, max_count), AndMore(Len(paths) - max_count))
  ELSE Slice(paths, max_count)

\* the list get_targets answers with
displayed(paths, max_count) ==
  IF Len(paths) > max_count
  THEN Append(Slice(paths, max_count), AndMore(Len(paths) - max_count))
  ELSE Slice(paths, max_count)

\* a get_targets that appends to the registered list itself (no slice copy)
RegistryAliased(session_id) ==
  [SESSIONS EXCEPT ![session_id] =
     displayed(SESSIONS[session_id], TARGETS_COUNT_DEFAULT)]

\* the registry after get_targets built its answer: paths[:max_count] is a
\* copy, so the append does not reach the registered list
RegistryAfterDisplay(session_id) == SESSIONS

GetTargets(session_id) ==
  /\ LoopFree(0)
  /\ IF session_id \notin DOMAIN SESSIONS
     THEN /\ resp' = [NoResp EXCEPT !.status = "unknown session_id",
                                    !.session_id = session_id]
          /\ UNCHANGED <<SESSIONS>>
     ELSE /\ resp' = [status |-> "paths", session_id |-> session_id,
                      paths |-> displayed(SESSIONS[session_id],
                                          TARGETS_COUNT_DEFAULT),
                      of |-> SESSIONS[session_id]]
          /\ SESSIONS' = RegistryAfterDisplay(session_id)
  /\ UNCHANGED <<TARGETS_COUNT_DEFAULT, nsub, stores, reqs, queries,
                 submitted, fp, cls>>


----------------------------------------------------------------------------
(* The process pool *)

PendingTask == [st |-> "pending", exc |-> FALSE, out |-> <<>>]

\* <<q, k>>: the task submitted for path k of query q
TaskIds ==
  UNION { {<<q, k>> : k \in 1..Len(queries[q].tasks)} : q \in 1..Len(queries) }

TaskOf(t) == queries[t[1]].tasks[t[2]]

Earlier(t, u) == t[1] < u[1] \/ (t[1] = u[1] /\ t[2] < u[2])

\* a free worker takes the oldest work item of the pool's queue
StartTask(t) ==
  /\ TaskOf(t).st = "pending"
  /\ \A u \in TaskIds : Earlier(u, t) => TaskOf(u).st # "pending"
  /\ Cardinality({u \in TaskIds : TaskOf(u).st = "running"}) < max_workers
  /\ queries' = [queries EXCEPT ![t[1]].tasks[t[2]].st = "running"]
  /\ resp' = NoResp
  /\ UNCHANGED <<TARGETS_COUNT_DEFAULT, nsub, SESSIONS, stores, reqs,
                 submitted, fp, cls>>

\* the worker process returns from search_file, or search_file raised
FinishTask(t, converted) ==
  /\ TaskOf(t).st = "running"
  /\ LET query == queries[t[1]]
         res == search_file(query.paths[t[2]], query.pattern, query.flags,
                            converted)
     IN  queries' = [queries EXCEPT
           ![t[1]].tasks[t[2]] =
              [st |-> "done", exc |-> res.exc, out |-> res.out],
           ![t[1]].order =
              IF query.outcome = "pending" THEN Append(@, t[2]) ELSE @]
  /\ resp' = NoResp
  /\ UNCHANGED <<TARGETS_COUNT_DEFAULT, nsub, SESSIONS, stores, reqs,
                 submitted, fp, cls>>

----------------------------------------------------------------------------
(* The /search handler *)

\* order is history: the tasks of the query in the order they finished while
\* the handler was waiting for them
Query(session_id, in, paths, outcome) ==
  [session_id |-> session_id, pattern |-> in.pattern, flags |-> in.ignore_case,
   paths |-> paths, tasks |-> [k \in 1..Len(paths) |-> PendingTask],
   order |-> <<>>, outcome |-> outcome, matches |-> <<>>]

\* a handler that opens the database before it looks the session up
SearchUnknownAfterInitDb(r, session_id, in) ==
  /\ reqs[r].pc = "idle"
  /\ \A o \in Slots : reqs[o].pc = "idle" => r <= o
  /\ nsub + Len(queries) < MaxRequests
  /\ LoopFree(r)
  /\ session_id \notin DOMAIN SESSIONS
  /\ stores' = init_db(session_id)
  /\ queries' = Append(queries,
                       Query(session_id, in, <<>>, "unknown session_id"))
  /\ reqs' = [reqs EXCEPT ![r] = Idle]
  /\ resp' = NoResp
  /\ UNCHANGED <<TARGETS_COUNT_DEFAULT, nsub, SESSIONS, submitted, fp, cls>>

\* session_id not in SESSIONS: the 400 answer
SearchUnknown(r, session_id, in) ==
  /\ reqs[r].pc = "idle"
  /\ \A o \in Slots : reqs[o].pc = "idle" => r <= o
  /\ nsub + Len(queries) < MaxRequests
  /\ LoopFree(r)
  /\ session_id \notin DOMAIN SESSIONS
  /\ queries' = Append(queries,
                       Query(session_id, in, <<>>, "unknown session_id"))
  /\ reqs' = [reqs EXCEPT ![r] = Idle]
  /\ resp' = NoResp
  /\ UNCHANGED <<TARGETS_COUNT_DEFAULT, nsub, SESSIONS, stores, submitted, fp,
                 cls>>

\* init_db, then one executor.submit per path of the session
SearchDispatch(r, session_id, in) ==
  /\ reqs[r].pc = "idle"
  /\ \A o \in Slots : reqs[o].pc = "idle" => r <= o
  /\ nsub + Len(queries) < MaxRequests
  /\ LoopFree(r)
  /\ session_id \in DOMAIN SESSIONS
  /\ stores' = init_db(session_id)
  /\ queries' = Append(queries,
                       Query(session_id, in, SESSIONS[session_id], "pending"))
  /\ reqs' = [reqs EXCEPT ![r] = [pc |-> "running", q |-> Len(queries) + 1,
                                  i |-> 1, results |-> <<>>, j |-> 1]]
  /\ resp' = NoResp
  /\ UNCHANGED <<TARGETS_COUNT_DEFAULT, nsub, SESSIONS, submitted, fp, cls>>

\* for f in futures: results.extend(f.result()); a task's exception is
\* raised again by f.result() and ends the handler with a 500 answer
SearchCollect(r) ==
  LET q == reqs[r].q
      i == reqs[r].i
  IN  /\ reqs[r].pc = "running"
      /\ i <= Len(queries[q].tasks)
      /\ queries[q].tasks[i].st = "done"
      /\ IF queries[q].tasks[i].exc
         THEN /\ queries' = [queries EXCEPT ![q].outcome = "server error",
                                         ![q].order = <<>>]
              /\ reqs' = [reqs EXCEPT ![r] = Idle]
         ELSE /\ reqs' = [reqs EXCEPT
                   ![r].results = extend(@, queries[q].tasks[i].out),
                   ![r].i = i + 1]
              /\ UNCHANGED queries
      /\ resp' = NoResp
      /\ UNCHANGED <<TARGETS_COUNT_DEFAULT, nsub, SESSIONS, stores, submitted,
                     fp, cls>>

\* for r in results: save_result(conn, pattern, ...)
SearchSave(r) ==
  LET q == reqs[r].q
      j == reqs[r].j
      d == db_path(queries[q].session_id)
  IN  /\ reqs[r].pc = "running"
      /\ reqs[r].i > Len(queries[q].tasks)
      /\ j <= Len(reqs[r].results)
      /\ stores' = [stores EXCEPT
           ![d] = save_result(@, Row(q, queries[q].pattern,
                                     reqs[r].results[j]))]
      /\ reqs' = [reqs EXCEPT ![r].j = j + 1]
      /\ resp' = NoResp
      /\ UNCHANGED <<TARGETS_COUNT_DEFAULT, nsub, SESSIONS, queries,
                     submitted, fp, cls>>

\* return {"matches": results, ...}
SearchRespond(r) ==
  LET q == reqs[r].q
  IN  /\ reqs[r].pc = "running"
      /\ reqs[r].i > Len(queries[q].tasks)
      /\ reqs[r].j > Len(reqs[r].results)
      /\ queries' = [queries EXCEPT ![q].outcome = "matches",
                                    ![q].matches = reqs[r].results,
                                    ![q].order = <<>>]
      /\ reqs' = [reqs EXCEPT ![r] = Idle]
      /\ resp' = NoResp
      /\ UNCHANGED <<TARGETS_COUNT_DEFAULT, nsub, SESSIONS, stores, submitted,
                     fp, cls>>

----------------------------------------------------------------------------
(* The server *)

Next ==
  \/ \E session_id \in SessionIds, paths \in TargetLists :
       SubmitTargets(session_id, paths)
  \/ \E session_id \in SessionIds : GetTargets(session_id)
  \/ \E r \in Slots, session_id \in SessionIds, in \in SearchInputs :
       SearchUnknown(r, session_id, in)
  \/ \E r \in Slots, session_id \in SessionIds, in \in SearchInputs :
       SearchDispatch(r, session_id, in)
  \/ \E t \in TaskIds : StartTask(t)
  \/ \E t \in TaskIds, converted \in BOOLEAN : FinishTask(t, converted)
  \/ \E r \in Slots : SearchCollect(r)
  \/ \E r \in Slots : SearchSave(r)
  \/ \E r \in Slots : SearchRespond(r)

Spec == Init /\ [][Next]_vars

----------------------------------------------------------------------------
(* search_file on its own: every short path over PathChars is classified *)

ClassifyInit ==
  /\ TARGETS_COUNT_DEFAULT = 0
  /\ SESSIONS = <<>>
  /\ stores = <<>>
  /\ reqs = [r \in Slots |-> Idle]
  /\ queries = <<>>
  /\ nsub = 0
  /\ resp = NoResp
  /\ submitted = <<>>
  /\ fp \in PathsUpTo(MaxPathLen) \ {<<>>}
  /\ cls = NoCls

Classify(pattern, flags, converted) ==
  /\ ~cls.done
  /\ LET res == search_file(fp, pattern, flags, converted)
     IN  cls' = [done |-> TRUE, branch |-> Dispatch(fp), exc |-> res.exc,
                 out |-> res.out]
  /\ UNCHANGED <<TARGETS_COUNT_DEFAULT, nsub, SESSIONS, stores, reqs, queries,
                 resp, submitted, fp>>

ClassifyNext ==
  \E in \in SearchInputs, converted \in BOOLEAN :
    Classify(in.pattern, in.ignore_case, converted)

ClassifySpec == ClassifyInit /\ [][ClassifyNext]_vars


----------------------------------------------------------------------------
(* Properties *)

Answered(q) == queries[q].outcome # "pending"
NewQuery == Len(queries') = Len(queries) + 1
RowsOf(q, d) ==
  LET OfQ(row) == row.q = q
  IN  IF d \in DOMAIN stores THEN SelectSeq(stores[d], OfQ) ELSE <<>>

\* C1: a /search whose session_id is not registered is answered "unknown
\* session_id" and changes nothing else: no task is submitted, no store is
\* created and no row is appended to any store.
C1_UnknownSessionHasNoEffect ==
  [][(NewQuery /\ queries'[Len(queries')].session_id \notin DOMAIN SESSIONS)
       => /\ queries'[Len(queries')].outcome = "unknown session_id"
          /\ queries'[Len(queries')].tasks = <<>>
          /\ SubSeq(queries', 1, Len(queries)) = queries
          /\ stores' = stores
          /\ SESSIONS' = SESSIONS
          /\ reqs' = reqs]_vars

C1_Witness ==
  /\ Len(queries) = 2
  /\ queries[1].outcome = "matches" /\ queries[1].matches # <<>>
  /\ queries[2].outcome = "unknown session_id"

\* the matches returned so far by the searches that write store d
RECURSIVE Returned(_, _)
Returned(d, n) ==
  IF n = 0 THEN 0
  ELSE Returned(d, n - 1)
       + (IF /\ db_path(queries[n].session_id) = d
             /\ queries[n].outcome = "matches"
          THEN Len(queries[n].matches) ELSE 0)

C2_RowsPerSearch ==
  /\ \A q \in 1..Len(queries) :
       queries[q].outcome = "matches" =>
         /\ RowsOf(q, db_path(queries[q].session_id)) =
              [n \in 1..Len(queries[q].matches) |->
                 Row(q, queries[q].pattern, queries[q].matches[n])]
         /\ \A d \in DOMAIN stores \ {db_path(queries[q].session_id)} :
              RowsOf(q, d) = <<>>
  /\ (\A r \in Slots : reqs[r].pc # "running") =>
       \A d \in DOMAIN stores : Len(stores[d]) = Returned(d, Len(queries))

C2_StoresOnlyGrow ==
  \A d \in DOMAIN stores :
    /\ d \in DOMAIN stores'
    /\ Len(stores'[d]) >= Len(stores[d])
    /\ SubSeq(stores'[d], 1, Len(stores[d])) = stores[d]

\* C2: a result store only grows at its end, and a search that returned k
\* matches has added exactly those k matches as rows, in the returned order,
\* so that once no search is being handled a store holds one row per match
\* ever returned for it: the same query run twice doubles the row count.
C2_AppendOnly == [](C2_RowsPerSearch) /\ [][C2_StoresOnlyGrow]_vars

C2_Witness ==
  /\ Len(queries) = 2
  /\ queries[1].outcome = "matches" /\ queries[2].outcome = "matches"
  /\ queries[1].session_id = queries[2].session_id
  /\ queries[1].pattern = queries[2].pattern
  /\ queries[1].flags = queries[2].flags
  /\ queries[1].matches = queries[2].matches
  /\ Len(queries[1].matches) >= 2
  /\ Len(stores[db_path(queries[1].session_id)]) = 2 * Len(queries[1].matches)

\* C3: every row in the store of a registered session B was written by a
\* search issued with session id B.
C3_StoresPartitionedBySessionId ==
  \A B \in DOMAIN SESSIONS :
    db_path(B) \in DOMAIN stores =>
      \A n \in 1..Len(stores[db_path(B)]) :
        queries[stores[db_path(B)][n].q].session_id = B

\* what the handlers yield for the paths of query q, in path order
Expected(q) ==
  Concat([k \in 1..Len(queries[q].paths) |->
            search_file(queries[q].paths[k], queries[q].pattern,
                        queries[q].flags, TRUE).out])

\* C4: the match list a search assembles and returns is the concatenation of
\* what search_file yields for each path, in the order of the session's path
\* list, whatever the order in which the pool's tasks finished.
C4_SubmissionOrder ==
  /\ \A q \in 1..Len(queries) :
       queries[q].outcome = "matches" => queries[q].matches = Expected(q)
  /\ \A r \in Slots :
       (reqs[r].pc = "running" /\ reqs[r].i > Len(queries[reqs[r].q].tasks))
         => reqs[r].results = Expected(reqs[r].q)

C4_Witness ==
  \E r \in Slots :
    LET q == reqs[r].q
    IN  /\ reqs[r].pc = "running"
        /\ reqs[r].i > Len(queries[q].tasks)
        /\ queries[q].order = <<2, 1>>
        /\ Len(queries[q].tasks[1].out) >= 2
        /\ Len(queries[q].tasks[2].out) >= 1
        /\ reqs[r].results = queries[q].tasks[1].out \o queries[q].tasks[2].out

\* C5: with N registered paths and display limit L, get_targets answers the
\* paths themselves when N <= L, and the first L paths followed by the one
\* entry "...and (N-L) more" when N > L.
C5_GetTargets ==
  resp.status = "paths" =>
    LET N == Len(resp.of)
        L == TARGETS_COUNT_DEFAULT
    IN  IF N <= L THEN resp.paths = resp.of
        ELSE /\ Len(resp.paths) = L + 1
             /\ SubSeq(resp.paths, 1, L) = SubSeq(resp.of, 1, L)
             /\ resp.paths[L + 1] = AndMore(N - L)

C5_Witness ==
  /\ resp.status = "paths"
  /\ TARGETS_COUNT_DEFAULT = 1
  /\ Len(resp.of) = 2
  /\ resp.paths =
       <<resp.of[1],
         <<".", ".", ".", "a", "n", "d", " ", "1", " ", "m", "o", "r", "e">> >>

\* C6 as claimed: the list registered for a session id never changes once it
\* is registered.
C6_NeverMutated ==
  [][\A s \in DOMAIN SESSIONS :
       s \in DOMAIN SESSIONS' /\ SESSIONS'[s] = SESSIONS[s]]_vars

\* C6 as amended: the list registered for a session id is always exactly the
\* list most recently submitted for it; get_targets and search never change it.
C6_LastSubmitted ==
  /\ DOMAIN SESSIONS = DOMAIN submitted
  /\ \A s \in DOMAIN SESSIONS : SESSIONS[s] = submitted[s]

C6_Witness ==
  /\ nsub = 2
  /\ Cardinality(DOMAIN SESSIONS) = 1
  /\ resp.status = "paths"
  /\ Len(resp.paths) = TARGETS_COUNT_DEFAULT + 1
  /\ Len(resp.of) > TARGETS_COUNT_DEFAULT
  /\ \E q \in 1..Len(queries) :
       queries[q].outcome = "matches" /\ queries[q].session_id = resp.session_id

MappedExts == ExcelExts \cup TextExts \cup {DocxExt, PptxExt, PdfExt}

\* C7: a path whose lower-cased extension is none of the mapped ones yields
\* no match, reaches no handler and no converter, and raises nothing.
C7_UnmappedIsUnsupported ==
  (cls.done /\ Ext(fp) \notin MappedExts) =>
    (cls.branch = "none" /\ ~cls.exc /\ cls.out = <<>>)

\* C8: a search ends with a match list or with the "unknown session_id"
\* answer, and in no other way.
C8_TwoOutcomes ==
  \A q \in 1..Len(queries) :
    queries[q].outcome \in {"pending", "matches", "unknown session_id"}

\* C9: a search submits one task per registered path, and neither answers
\* its caller nor writes a row while one of its tasks is pending or running.
C9_BlocksUntilAllTasksDone ==
  \A q \in 1..Len(queries) :
    /\ queries[q].outcome # "unknown session_id" =>
         Len(queries[q].tasks) = Len(queries[q].paths)
    /\ (Answered(q) \/ RowsOf(q, db_path(queries[q].session_id)) # <<>>) =>
         \A k \in 1..Len(queries[q].tasks) : queries[q].tasks[k].st = "done"

\* C10: the rows one query appends to a store form one contiguous block:
\* they are never interleaved with the rows of another query.
C10_ContiguousBlocks ==
  \A d \in DOMAIN stores :
    \A a, b, c \in 1..Len(stores[d]) :
      (a < b /\ b < c /\ stores[d][a].q = stores[d][c].q)
        => stores[d][b].q = stores[d][a].q

C10_Witness ==
  \E d \in DOMAIN stores :
    /\ Len(queries) = 2
    /\ queries[1].session_id = queries[2].session_id
    /\ RowsOf(1, d) # <<>>
    /\ RowsOf(2, d) # <<>>
    /\ \E r \in Slots : reqs[r].pc = "running" /\ reqs[r].q = 2


====
